---- MODULE Spec2Model ----
(***************************************************************************)
(* Sale-commit path of the point-of-sale application.                     *)
(*                                                                         *)
(* MenuTab (src/src/components/pos/MenuTab.tsx) holds the cart and runs    *)
(* handlePrintComplete, the commit; PrintDialog (src/unnamed/part_006) is  *)
(* the payment dialog that calls it; DiscountDialog                        *)
(* (src/src/components/pos/StockTab.tsx:1087) sets the cart discount; the  *)
(* tables and their constraints are in src/unnamed/part_000.  Beside the   *)
(* tills, BillHistory (src/src/components/pos/BillHistory.tsx) reprints    *)
(* bills, StockTab (src/src/components/pos/StockTab.tsx:604, 637) restocks *)
(* and deletes stock items, and the sales reports (src/unnamed/part_004)   *)
(* sum the bills.  The buttons of the cart's lines are those of            *)
(* OrderSummary (src/src/components/pos/BarcodeScanner.tsx:178).           *)
(*                                                                         *)
(* Every `await supabase...` of the commit is one step of the session's    *)
(* process, so the steps of two sessions interleave at exactly the         *)
(* suspension points of the code.  Each request may fail (ok = FALSE).     *)
(***************************************************************************)
EXTENDS Integers, Sequences, FiniteSets, TLC

Sessions == {"s1", "s2"}
Items == {"pen", "cup"}

\* retail_price of the stock items (the catalogue is not edited here)
Price(i) == IF i = "pen" THEN 100 ELSE 50

\* initial current_stock of every item
MaxStock == 1
\* number of commits (calls of MenuTab.handlePrintComplete) started overall
MaxCommits == 2
\* number of persistence requests that fail overall
MaxFaults == 1

\* `Date.now().toString().slice(-8)`: the last 8 decimal digits
RefModulus == 100000000

\* milliseconds that may have passed on one till since its previous commit
Elapsed == {1, RefModulus}
\* milliseconds between two consecutive readings, or between two tills
Ticks == {0, 1}

\* what the user types into the number inputs of the dialogs
PaidInputs == {50}
DiscountInputs == {50}
DiscountTypes == {"percentage", "amount"}
\* a discount value above any subtotal and above 100 percent
LargeDiscountInputs == {200}
Names == {"Ann"}
\* the clock readings up to which the passing of single milliseconds
\* between cart operations is followed
MaxTime == 1
\* the stock typed in when an item is restocked
RestockInputs == {MaxStock + 1}

VARIABLES
  \* ---- persistence layer (src/unnamed/part_000)
  stock,            \* stock_items.current_stock, by item
  present,          \* the items whose row of stock_items exists
  bills,            \* rows of table bills
  billItems,        \* rows of table bill_items
  nextBillId,       \* gen_random_uuid(): the next fresh bills.id
  now,              \* Date.now() at its latest reading, in ms after an
                    \* instant that is a multiple of 10^8 ms
  \* ---- MenuTab state, by session
  catalog,          \* categories: stock of each item as last fetched
  orderItems,       \* the cart: sequence of [id, item, quantity, stock]
  customerName,
  discount,         \* cart discount, an amount
  applied,          \* history: value and type given to DiscountDialog for
                    \* the discount of the current cart
  showPrintDialog,
  \* ---- PrintDialog state, by session
  paidAmount,       \* text of the input: <<>> is the empty text, <<n>> is n
  discountValue,    \* text of the input
  discountType,
  isPrinting,
  billBarcode,      \* text: Date.now() read when the dialog opened, or <<>>
  refNumber,        \* text: the REF- number made of that reading, or <<>>
  \* ---- the running handlePrintComplete of each session
  pc,               \* position of the commit
  call,             \* its closure and locals, and the closure of the
                    \* printToThermalPrinter that awaits it (dec and failed are history:
                    \* decrements written per item, a request of it failed)
  result,           \* what the last confirm reported to the user (toast)
  \* ---- history
  cartId,           \* identity of the session's current cart
  committed,        \* carts whose commit returned successfully
  snapshot,         \* persisted state when the session's last commit began
  interfered,       \* another session wrote since that commit began
  faults,           \* persistence requests failed so far
  nCommits          \* commits started so far

dbVars == <<stock, present, bills, billItems, nextBillId>>
cartVars == <<catalog, orderItems, customerName, discount, applied>>
dialogVars == <<showPrintDialog, paidAmount, discountValue, discountType, isPrinting,
                billBarcode, refNumber>>
histVars == <<cartId, committed, snapshot, interfered, faults, nCommits>>
vars == <<stock, present, bills, billItems, nextBillId, now, catalog, orderItems, customerName,
          discount, applied, showPrintDialog, paidAmount, discountValue, discountType, isPrinting,
          billBarcode, refNumber,
          pc, call, result, cartId, committed, snapshot, interfered, faults,
          nCommits>>

----------------------------------------------------------------------------
\* Pure functions of the code

\* the least element of a non-empty set of indices: Array.prototype.find
Min(S) == CHOOSE k \in S : \A j \in S : k <= j

\* parseFloat(text) || 0
parseFloatOr0(text) == IF text = <<>> THEN 0 ELSE text[1]

RECURSIVE subtotalOf(_)
\* orderItems.reduce((sum, item) => sum + item.menuItem.price * item.quantity, 0)
subtotalOf(lines) ==
  IF lines = <<>> THEN 0
  ELSE subtotalOf(Tail(lines)) + Price(Head(lines).item) * Head(lines).quantity

\* MenuTab: const total = subtotal - discount
totalOf(lines, disc) == subtotalOf(lines) - disc

\* calculateDiscount as it would be if a percentage were not divided by 100
calculateDiscount_undivided(sub, value, type) ==
  IF type = "percentage" THEN sub * value ELSE value

\* calculateDiscount of PrintDialog and of DiscountDialog
calculateDiscount(sub, value, type) ==
  IF type = "percentage" THEN (sub * value) \div 100 ELSE value

\* `REF-${Date.now().toString().slice(-8)}`
refNumberAt(t) == t % RefModulus

\* `${Date.now()}`
barcodeAt(t) == t

\* the rows of bill_items of a bill
linesOf(b) == {r \in billItems : r.bill_id = b.id}

DB == [stock |-> stock, bills |-> bills, billItems |-> billItems]

NoCall == [orderItems |-> <<>>, subtotal |-> 0, total |-> 0, customerName |-> "",
           paidAmount |-> 0, discountApplied |-> 0, discountType |-> "amount",
           refNumber |-> 0, barcodeNum |-> 0, changeAmount |-> 0,
           idx |-> 0, billId |-> 0, currentStock |-> 0,
           dialogRefNumber |-> <<>>, dialogBarcode |-> <<>>, cart |-> <<"s1", 0>>,
           instant |-> 0, dec |-> [i \in Items |-> 0], failed |-> FALSE]

NoResult == [kind |-> "none"]

\* const { user } = useAuth(): the signed-in user of each session
user == [s \in Sessions |-> IF s = "s1" THEN "u1" ELSE "u2"]

\* a column without value
NULL == "NULL"

\* no discount: useState(0) of MenuTab.discount, setDiscount(0)
NoDiscount == [value |-> 0, type |-> "amount"]

----------------------------------------------------------------------------
Init ==
  /\ stock = [i \in Items |-> MaxStock]
  /\ present = Items
  /\ bills = {}
  /\ billItems = {}
  /\ nextBillId = 1
  /\ now = 0
  /\ catalog = [s \in Sessions |-> [i \in Items |-> MaxStock]]
  /\ orderItems = [s \in Sessions |-> <<>>]
  /\ customerName = [s \in Sessions |-> ""]
  /\ discount = [s \in Sessions |-> 0]
  /\ applied = [s \in Sessions |-> NoDiscount]
  /\ showPrintDialog = [s \in Sessions |-> FALSE]
  /\ paidAmount = [s \in Sessions |-> <<>>]
  /\ discountValue = [s \in Sessions |-> <<0>>]
  /\ discountType = [s \in Sessions |-> "amount"]
  /\ isPrinting = [s \in Sessions |-> FALSE]
  /\ billBarcode = [s \in Sessions |-> <<>>]
  /\ refNumber = [s \in Sessions |-> <<>>]
  /\ pc = [s \in Sessions |-> "idle"]
  /\ call = [s \in Sessions |-> NoCall]
  /\ result = [s \in Sessions |-> NoResult]
  /\ cartId = [s \in Sessions |-> 0]
  /\ committed = {}
  /\ snapshot = [s \in Sessions |-> [stock |-> [i \in Items |-> MaxStock], bills |-> {}, billItems |-> {}]]
  /\ interfered = [s \in Sessions |-> FALSE]
  /\ faults = 0
  /\ nCommits = 0

----------------------------------------------------------------------------
\* MenuTab: the cart.  The catalogue, the cart and both dialogs are rendered
\* only while MenuTab is not loading (MenuTab.tsx:624), and the item list
\* and the buttons beside the cart are covered while the payment dialog
\* is open.  Input is followed only while a commit can still start.

CartUsable(s) == pc[s] # "refresh" /\ ~showPrintDialog[s] /\ nCommits < MaxCommits

\* handleItemSelect as it would be if a new line were put before the
\* existing ones
handleItemSelect_prepends(s, item) ==
  /\ CartUsable(s)
  /\ item.stock > 0
  /\ LET i == item.item
         prev == orderItems[s]
         found == {k \in 1..Len(prev) : prev[k].item = i}
     IN orderItems' = [orderItems EXCEPT ![s] =
          IF found # {}
          THEN IF \E k \in found : k = Min(found) /\ prev[k].quantity >= item.stock
               THEN prev
               ELSE [k \in 1..Len(prev) |->
                       IF prev[k].item = i
                       THEN [prev[k] EXCEPT !.quantity = prev[k].quantity + 1]
                       ELSE prev[k]]
          ELSE <<[id |-> <<now>>, item |-> i, quantity |-> 1, stock |-> item.stock]>>
               \o prev]
  /\ UNCHANGED <<dbVars, now, catalog, customerName, discount, applied, dialogVars, pc,
                 call, result, histVars>>

\* handleItemSelect(item) with the MenuItem handed to it: [item, stock].  The
\* check of an existing line is against the stock of that MenuItem, the line
\* keeps the MenuItem it was made with.  The id of a new line is
\* `order-${Date.now()}`, modelled as <<the clock reading>>.
handleItemSelect(s, item) ==
  /\ CartUsable(s)
  /\ item.stock > 0
  /\ LET i == item.item
         prev == orderItems[s]
         found == {k \in 1..Len(prev) : prev[k].item = i}
     IN orderItems' = [orderItems EXCEPT ![s] =
          IF found # {}
          THEN IF \E k \in found : k = Min(found) /\ prev[k].quantity >= item.stock
               THEN prev
               ELSE [k \in 1..Len(prev) |->
                       IF prev[k].item = i
                       THEN [prev[k] EXCEPT !.quantity = prev[k].quantity + 1]
                       ELSE prev[k]]
          ELSE Append(prev, [id |-> <<now>>, item |-> i, quantity |-> 1,
                             stock |-> item.stock])]
  /\ UNCHANGED <<dbVars, now, catalog, customerName, discount, applied, dialogVars, pc,
                 call, result, histVars>>

\* click on an item of the catalogue (CategoryList, onItemSelect): the
\* MenuItem as last fetched
onItemSelect(s, i) == handleItemSelect(s, [item |-> i, stock |-> catalog[s][i]])

\* a product barcode scanned or typed: the row of stock_items with that
\* barcode and current_stock > 0 is fetched and handed to handleItemSelect
handleBarcodeScanned(s, i) ==
  /\ i \in present
  /\ stock[i] > 0
  /\ handleItemSelect(s, [item |-> i, stock |-> stock[i]])

\* handleUpdateQuantity(itemId, quantity): the line looked at for the stock
\* check is the first one with that id, the lines written are all with it
handleUpdateQuantity(s, itemId, quantity) ==
  /\ CartUsable(s)
  /\ LET prev == orderItems[s]
         found == {k \in 1..Len(prev) : prev[k].id = itemId}
     IN orderItems' = [orderItems EXCEPT ![s] =
          IF quantity <= 0
          THEN SelectSeq(prev, LAMBDA oi : oi.id # itemId)
          ELSE IF found # {} /\ quantity > prev[Min(found)].stock
               THEN prev
               ELSE [k \in 1..Len(prev) |->
                       IF prev[k].id = itemId
                       THEN [prev[k] EXCEPT !.quantity = quantity]
                       ELSE prev[k]]]
  /\ UNCHANGED <<dbVars, now, catalog, customerName, discount, applied, dialogVars, pc,
                 call, result, histVars>>

\* handleRemoveItem(itemId)
handleRemoveItem(s, itemId) ==
  /\ CartUsable(s)
  /\ orderItems' = [orderItems EXCEPT ![s] =
                      SelectSeq(orderItems[s], LAMBDA oi : oi.id # itemId)]
  /\ UNCHANGED <<dbVars, now, catalog, customerName, discount, applied, dialogVars, pc,
                 call, result, histVars>>

\* OrderSummary: the - and + buttons of the k-th line,
\* onUpdateQuantity(item.id, item.quantity - 1) and (item.id, item.quantity + 1)
onUpdateQuantity(s, k, d) ==
  /\ k \in 1..Len(orderItems[s])
  /\ handleUpdateQuantity(s, orderItems[s][k].id, orderItems[s][k].quantity + d)

\* OrderSummary: the remove button of the k-th line, onRemoveItem(item.id)
onRemoveItem(s, k) ==
  /\ k \in 1..Len(orderItems[s])
  /\ handleRemoveItem(s, orderItems[s][k].id)

\* F9 (confirmed) or N with a non-empty cart: setOrderItems([]),
\* setCustomerName(''), setDiscount(0).  The listener is on the window, the
\* payment dialog being open or not.
clearOrder(s) ==
  /\ pc[s] # "refresh" /\ nCommits < MaxCommits
  /\ orderItems[s] # <<>>
  /\ orderItems' = [orderItems EXCEPT ![s] = <<>>]
  /\ customerName' = [customerName EXCEPT ![s] = ""]
  /\ discount' = [discount EXCEPT ![s] = 0]
  /\ applied' = [applied EXCEPT ![s] = NoDiscount]
  /\ UNCHANGED <<dbVars, now, catalog, dialogVars, pc, call, result, histVars>>

\* the orders in which a select without order by may return the rows
Orders(rows) ==
  {f \in [1..Cardinality(rows) -> rows] :
     \A a, b \in 1..Cardinality(rows) : a # b => f[a] # f[b]}

RECURSIVE importLines(_, _)
\* the loop of handleImportBillFromBarcode over the rows of bill_items, with
\* the lines pushed so far: a row becomes a line when stock_items has a row
\* of its name with current_stock >= quantity, and the id of the line is
\* `order-${Date.now()}-${itemsAdded}`, modelled as <<the clock reading, itemsAdded>>
importLines(rows, newOrderItems) ==
  IF rows = <<>> THEN newOrderItems
  ELSE LET billItem == Head(rows)
           i == billItem.item_name
       IN importLines(Tail(rows),
            IF i \in present /\ stock[i] >= billItem.quantity
            THEN Append(newOrderItems,
                        [id |-> <<now, Len(newOrderItems)>>, item |-> i,
                         quantity |-> billItem.quantity, stock |-> stock[i]])
            ELSE newOrderItems)

\* handleImportBillFromBarcode as it would be if importing a bill took the
\* bill back: the bill and its rows of bill_items are deleted
handleImportBillFromBarcode_takesBack(s, barcode) ==
  /\ CartUsable(s)
  /\ \E billData \in bills :
       /\ billData.barcode = barcode
       /\ linesOf(billData) # {}
       /\ \E rows \in Orders(linesOf(billData)) :
            orderItems' = [orderItems EXCEPT ![s] = importLines(rows, <<>>)]
       /\ customerName' = [customerName EXCEPT ![s] = billData.customer_name]
       /\ bills' = bills \ {billData}
       /\ billItems' = billItems \ linesOf(billData)
  /\ discount' = [discount EXCEPT ![s] = 0]
  /\ applied' = [applied EXCEPT ![s] = NoDiscount]
  /\ UNCHANGED <<stock, present, nextBillId, now, catalog, dialogVars, pc, call, result,
                 histVars>>

\* handleImportBillFromBarcode(barcode), a bill barcode scanned or typed:
\* the bill of that barcode and its rows of bill_items are fetched, the
\* cart, the customer name and the discount are reset, and the cart becomes
\* the lines made of the rows.  Without such a bill, or without rows of it,
\* nothing changes.
handleImportBillFromBarcode(s, barcode) ==
  /\ CartUsable(s)
  /\ \E billData \in bills :
       /\ billData.barcode = barcode
       /\ linesOf(billData) # {}
       /\ \E rows \in Orders(linesOf(billData)) :
            orderItems' = [orderItems EXCEPT ![s] = importLines(rows, <<>>)]
       /\ customerName' = [customerName EXCEPT ![s] = billData.customer_name]
  /\ discount' = [discount EXCEPT ![s] = 0]
  /\ applied' = [applied EXCEPT ![s] = NoDiscount]
  /\ UNCHANGED <<dbVars, now, catalog, dialogVars, pc, call, result, histVars>>

\* typing into the customer name input
onCustomerNameChange(s, n) ==
  /\ CartUsable(s)
  /\ customerName' = [customerName EXCEPT ![s] = n]
  /\ UNCHANGED <<dbVars, now, catalog, orderItems, discount, applied, dialogVars, pc,
                 call, result, histVars>>

\* DiscountDialog.handleApply with the value and type typed into it,
\* then MenuTab.handleApplyDiscount
handleApplyDiscount(s, value, type) ==
  /\ CartUsable(s)
  /\ discount' = [discount EXCEPT ![s] =
                    calculateDiscount(subtotalOf(orderItems[s]), value, type)]
  /\ applied' = [applied EXCEPT ![s] = [value |-> value, type |-> type]]
  /\ UNCHANGED <<dbVars, now, catalog, orderItems, customerName, dialogVars, pc, call,
                 result, histVars>>

\* PrintDialog's effect on [open, totalAmount, orderItems, subtotal].  Its
\* Date.now() is the clock as it stood at its latest reading: the time the
\* cashier takes from here to the confirmation passes in confirm.
openEffect(s) ==
  IF orderItems[s] # <<>>
  THEN /\ paidAmount' = [paidAmount EXCEPT ![s] = <<totalOf(orderItems[s], discount[s])>>]
       /\ discountValue' = [discountValue EXCEPT ![s] = <<0>>]
       /\ billBarcode' = [billBarcode EXCEPT ![s] = <<barcodeAt(now)>>]
       /\ refNumber' = [refNumber EXCEPT ![s] = <<refNumberAt(now)>>]
  ELSE UNCHANGED <<paidAmount, discountValue, billBarcode, refNumber>>

\* CHECKOUT button, F4, double Enter: only with a non-empty cart
onCheckout(s) ==
  /\ CartUsable(s)
  /\ orderItems[s] # <<>>
  /\ showPrintDialog' = [showPrintDialog EXCEPT ![s] = TRUE]
  /\ openEffect(s)
  /\ UNCHANGED <<dbVars, now, cartVars, discountType, isPrinting, pc, call, result,
                 histVars>>

\* PAYMENT button of BillingSummary: setShowPrintDialog(true), no condition
onPaymentClick(s) ==
  /\ CartUsable(s)
  /\ showPrintDialog' = [showPrintDialog EXCEPT ![s] = TRUE]
  /\ openEffect(s)
  /\ UNCHANGED <<dbVars, now, cartVars, discountType, isPrinting, pc, call, result,
                 histVars>>

----------------------------------------------------------------------------
\* PrintDialog

DialogUsable(s) == pc[s] # "refresh" /\ showPrintDialog[s] /\ nCommits < MaxCommits

\* Cancel button (disabled while printing) or Escape (onOpenChange, always)
onClose(s) ==
  /\ DialogUsable(s)
  /\ showPrintDialog' = [showPrintDialog EXCEPT ![s] = FALSE]
  /\ UNCHANGED <<dbVars, now, cartVars, paidAmount, discountValue, discountType,
                 isPrinting, billBarcode, refNumber, pc, call, result, histVars>>

setPaidAmount(s, v) ==
  /\ DialogUsable(s) /\ ~isPrinting[s]
  /\ paidAmount' = [paidAmount EXCEPT ![s] = <<v>>]
  /\ UNCHANGED <<dbVars, now, cartVars, showPrintDialog, discountValue, discountType,
                 isPrinting, billBarcode, refNumber, pc, call, result, histVars>>

setDiscountValue(s, v) ==
  /\ DialogUsable(s) /\ ~isPrinting[s]
  /\ discountValue' = [discountValue EXCEPT ![s] = <<v>>]
  /\ UNCHANGED <<dbVars, now, cartVars, showPrintDialog, paidAmount, discountType,
                 isPrinting, billBarcode, refNumber, pc, call, result, histVars>>

setDiscountType(s, t) ==
  /\ DialogUsable(s) /\ ~isPrinting[s]
  /\ discountType' = [discountType EXCEPT ![s] = t]
  /\ UNCHANGED <<dbVars, now, cartVars, showPrintDialog, paidAmount, discountValue,
                 isPrinting, billBarcode, refNumber, pc, call, result, histVars>>

\* PrintDialog: discountAmount, finalTotal as rendered
discountAmountOf(s) ==
  calculateDiscount(subtotalOf(orderItems[s]), parseFloatOr0(discountValue[s]), discountType[s])

finalTotalOf(s) == subtotalOf(orderItems[s]) - discountAmountOf(s)

\* confirmRejected as it would be if the rejection were detected only after
\* the cart had been cleared, as the sale path clears it
confirmRejected_clearsCart(s) ==
  /\ DialogUsable(s) /\ ~isPrinting[s]
  /\ parseFloatOr0(paidAmount[s]) < finalTotalOf(s)
  /\ result' = [result EXCEPT ![s] =
        [kind |-> "InsufficientPayment",
         shortfall |-> finalTotalOf(s) - parseFloatOr0(paidAmount[s])]]
  /\ orderItems' = [orderItems EXCEPT ![s] = <<>>]
  /\ UNCHANGED <<dbVars, now, catalog, customerName, discount, applied, dialogVars, pc,
                 call, histVars>>

\* PrintDialog.handlePrintComplete (Enter key with !isPrinting, or the Print
\* button, disabled while isPrinting), paid < finalTotal
confirmRejected(s) ==
  /\ DialogUsable(s) /\ ~isPrinting[s]
  /\ parseFloatOr0(paidAmount[s]) < finalTotalOf(s)
  /\ result' = [result EXCEPT ![s] =
        [kind |-> "InsufficientPayment",
         shortfall |-> finalTotalOf(s) - parseFloatOr0(paidAmount[s])]]
  /\ UNCHANGED <<dbVars, now, cartVars, dialogVars, pc, call, histVars>>

\* what the commit reads of the cart it closes over: of each line
\* item.menuItem and item.quantity, never item.id
readLines(lines) ==
  [k \in 1..Len(lines) |->
     [item |-> lines[k].item, quantity |-> lines[k].quantity, stock |-> lines[k].stock]]

\* PrintDialog.handlePrintComplete with paid >= finalTotal:
\* printToThermalPrinter up to `await onPrintComplete(...)`, that is
\* MenuTab.handlePrintComplete up to its first await
confirm(s, d1, d2) ==
  /\ DialogUsable(s) /\ ~isPrinting[s]
  /\ parseFloatOr0(paidAmount[s]) >= finalTotalOf(s)
  /\ nCommits < MaxCommits
  /\   LET t1 == now + d1
           t2 == t1 + d2
           paid == parseFloatOr0(paidAmount[s])
           lines == readLines(orderItems[s])
           total == totalOf(lines, discount[s])
       IN /\ now' = t2
          /\ call' = [call EXCEPT ![s] =
               [orderItems |-> lines, subtotal |-> subtotalOf(lines), total |-> total,
                customerName |-> customerName[s], paidAmount |-> paid,
                discountApplied |-> discountAmountOf(s), discountType |-> discountType[s],
                refNumber |-> refNumberAt(t1), barcodeNum |-> barcodeAt(t2),
                changeAmount |-> paid - total,
                idx |-> 1, billId |-> 0, currentStock |-> 0,
                dialogRefNumber |-> refNumber[s], dialogBarcode |-> billBarcode[s],
                cart |-> <<s, cartId[s]>>, instant |-> t1,
                dec |-> [i \in Items |-> 0], failed |-> FALSE]]
          /\ pc' = [pc EXCEPT ![s] = IF lines = <<>> THEN "insertBill" ELSE "verify"]
  /\ isPrinting' = [isPrinting EXCEPT ![s] = TRUE]
  /\ orderItems' = [orderItems EXCEPT ![s] = <<>>]
  /\ customerName' = [customerName EXCEPT ![s] = ""]
  /\ discount' = [discount EXCEPT ![s] = 0]
  /\ applied' = [applied EXCEPT ![s] = NoDiscount]
  /\ cartId' = [cartId EXCEPT ![s] = cartId[s] + 1]
  /\ snapshot' = [snapshot EXCEPT ![s] = DB]
  /\ interfered' = [interfered EXCEPT ![s] = FALSE]
  /\ nCommits' = nCommits + 1
  /\ UNCHANGED <<dbVars, catalog, showPrintDialog, paidAmount, discountValue,
                 discountType, billBarcode, refNumber, result, committed, faults>>

----------------------------------------------------------------------------
\* MenuTab.handlePrintComplete after its synchronous prefix: one step per
\* awaited request.  ok = FALSE is an error returned by the request.

CurLine(s) == call[s].orderItems[call[s].idx]
LastLine(s) == call[s].idx = Len(call[s].orderItems)

Fault(ok) ==
  /\ ~ok => faults < MaxFaults
  /\ faults' = IF ok THEN faults ELSE faults + 1

\* a write of session s reaches the tables
Wrote(s) == interfered' = [t \in Sessions |-> IF t = s THEN interfered[t] ELSE TRUE]

\* Throw as it would be if printToThermalPrinter had no `finally`
Throw_keepsPrinting(s, res) ==
  /\ pc' = [pc EXCEPT ![s] = "idle"]
  /\ result' = [result EXCEPT ![s] = res]
  /\ UNCHANGED <<isPrinting, paidAmount, discountValue, discountType, billBarcode, refNumber>>

\* `throw` inside the try: the catch of handlePrintComplete toasts and
\* rethrows, the catch of printToThermalPrinter does setIsPrinting(false),
\* the catch of PrintDialog.handlePrintComplete swallows the error
Throw(s, res) ==
  /\ pc' = [pc EXCEPT ![s] = "idle"]
  /\ isPrinting' = [isPrinting EXCEPT ![s] = FALSE]
  /\ result' = [result EXCEPT ![s] = res]
  /\ UNCHANGED <<paidAmount, discountValue, discountType, billBarcode, refNumber>>

\* after the last line: toast.success, then fetchStockItems() up to its
\* await.  Its setLoading(true) makes MenuTab render only the loading
\* placeholder (MenuTab.tsx:624), which unmounts PrintDialog: its state
\* is lost and it is mounted again, with its initial state, when loading ends
Finished(s) ==
  /\ pc' = [pc EXCEPT ![s] = "refresh"]
  /\ result' = [result EXCEPT ![s] = [kind |-> "success", refNumber |-> call[s].refNumber,
                                      changeAmount |-> call[s].changeAmount]]
  /\ isPrinting' = [isPrinting EXCEPT ![s] = FALSE]
  /\ paidAmount' = [paidAmount EXCEPT ![s] = <<>>]
  /\ discountValue' = [discountValue EXCEPT ![s] = <<0>>]
  /\ discountType' = [discountType EXCEPT ![s] = "amount"]
  /\ billBarcode' = [billBarcode EXCEPT ![s] = <<>>]
  /\ refNumber' = [refNumber EXCEPT ![s] = <<>>]

\* go on with the next line of the second loop, or finish
NextLine(s, c) ==
  IF LastLine(s)
  THEN call' = [call EXCEPT ![s] = c] /\ Finished(s)
  ELSE /\ call' = [call EXCEPT ![s] = [c EXCEPT !.idx = c.idx + 1]]
       /\ pc' = [pc EXCEPT ![s] = "insertItem"]
       /\ UNCHANGED <<result, isPrinting, paidAmount, discountValue, discountType,
                      billBarcode, refNumber>>

\* first loop: select current_stock of the line's item, compare.
\* `.single()` returns an error when the row does not exist.
checkStock(s, ok) ==
  /\ pc[s] = "verify"
  /\ Fault(ok)
  /\ IF ~ok \/ CurLine(s).item \notin present
     THEN /\ Throw(s, [kind |-> "PersistenceFailure", step |-> "checkStock"])
          /\ call' = [call EXCEPT ![s].failed = TRUE]
     ELSE IF stock[CurLine(s).item] < CurLine(s).quantity
     THEN /\ Throw(s, [kind |-> "InsufficientStock", item |-> CurLine(s).item,
                       available |-> stock[CurLine(s).item]])
          /\ UNCHANGED call
     ELSE /\ call' = [call EXCEPT ![s].idx = IF LastLine(s) THEN 1 ELSE @ + 1]
          /\ pc' = [pc EXCEPT ![s] = IF LastLine(s) THEN "insertBill" ELSE "verify"]
          /\ UNCHANGED <<result, isPrinting, paidAmount, discountValue, discountType,
                      billBarcode, refNumber>>
  /\ UNCHANGED <<dbVars, now, cartVars, showPrintDialog, cartId, committed, snapshot,
                 interfered, nCommits>>

\* billRow as it would be if the bill were stored as 'pending' until printed
billRow_pending(s) ==
  [id |-> nextBillId, reference_number |-> call[s].refNumber, barcode |-> call[s].barcodeNum,
   customer_name |-> call[s].customerName, subtotal |-> call[s].subtotal,
   discount |-> call[s].discountApplied, discount_type |-> call[s].discountType,
   total |-> call[s].total, paid_amount |-> call[s].paidAmount,
   change_amount |-> call[s].changeAmount, status |-> "pending", created_by |-> NULL,
   cart |-> call[s].cart, instant |-> call[s].instant]

\* the row handlePrintComplete inserts into bills; created_by is not among
\* the columns it gives and has no default; columns cart and instant are
\* history: the cart it records and the Date.now() its commit began at
billRow(s) ==
  [id |-> nextBillId, reference_number |-> call[s].refNumber, barcode |-> call[s].barcodeNum,
   customer_name |-> call[s].customerName, subtotal |-> call[s].subtotal,
   discount |-> call[s].discountApplied, discount_type |-> call[s].discountType,
   total |-> call[s].total, paid_amount |-> call[s].paidAmount,
   change_amount |-> call[s].changeAmount, status |-> "completed", created_by |-> NULL,
   cart |-> call[s].cart, instant |-> call[s].instant]

\* reference_number TEXT NOT NULL UNIQUE, barcode TEXT UNIQUE
uniqueViolation(row) ==
  \E b \in bills : b.reference_number = row.reference_number \/ b.barcode = row.barcode

\* insert into bills
insertBill(s, ok) ==
  /\ pc[s] = "insertBill"
  /\ Fault(ok)
  /\ IF ~ok \/ uniqueViolation(billRow(s))
     THEN /\ Throw(s, [kind |-> "PersistenceFailure", step |-> "insertBill"])
          /\ call' = [call EXCEPT ![s].failed = TRUE]
          /\ UNCHANGED <<bills, nextBillId, interfered>>
     ELSE /\ bills' = bills \cup {billRow(s)}
          /\ nextBillId' = nextBillId + 1
          /\ Wrote(s)
          /\ IF call[s].orderItems = <<>>
             THEN call' = [call EXCEPT ![s].billId = nextBillId] /\ Finished(s)
             ELSE /\ call' = [call EXCEPT ![s].billId = nextBillId, ![s].idx = 1]
                  /\ pc' = [pc EXCEPT ![s] = "insertItem"]
                  /\ UNCHANGED <<result, isPrinting, paidAmount, discountValue,
                                 discountType, billBarcode, refNumber>>
  /\ UNCHANGED <<stock, present, billItems, now, cartVars, showPrintDialog, cartId,
                 committed, snapshot, nCommits>>

billItemRow(s) ==
  [bill_id |-> call[s].billId, item_name |-> CurLine(s).item,
   quantity |-> CurLine(s).quantity, unit_price |-> Price(CurLine(s).item),
   total_price |-> Price(CurLine(s).item) * CurLine(s).quantity]

\* second loop: insert into bill_items
insertBillItem(s, ok) ==
  /\ pc[s] = "insertItem"
  /\ Fault(ok)
  /\ IF ok
     THEN /\ billItems' = billItems \cup {billItemRow(s)}
          /\ Wrote(s)
          /\ pc' = [pc EXCEPT ![s] = "fetchStock"]
          /\ UNCHANGED call
     ELSE /\ pc' = [pc EXCEPT ![s] = "deleteBill"]
          /\ call' = [call EXCEPT ![s].failed = TRUE]
          /\ UNCHANGED <<billItems, interfered>>
  /\ UNCHANGED <<stock, present, bills, nextBillId, now, cartVars, dialogVars, result,
                 cartId, committed, snapshot, nCommits>>

\* `await supabase.from('bills').delete().eq('id', billData.id)`, result not
\* looked at, then throw.  bill_items.bill_id is ON DELETE CASCADE.  The
\* request may delete nothing: part_000 enables row level security on bills
\* with policies for select, insert and update only.
deleteBill(s) ==
  /\ pc[s] = "deleteBill"
  /\ \E deleted \in BOOLEAN :
       IF deleted
       THEN /\ bills' = {b \in bills : b.id # call[s].billId}
            /\ billItems' = {r \in billItems : r.bill_id # call[s].billId}
            /\ Wrote(s)
       ELSE UNCHANGED <<bills, billItems, interfered>>
  /\ Throw(s, [kind |-> "PersistenceFailure", step |-> "insertBillItem"])
  /\ UNCHANGED <<stock, present, nextBillId, now, cartVars, showPrintDialog, call, cartId,
                 committed, snapshot, faults, nCommits>>

\* second loop: select current_stock; on error (also that of `.single()`
\* when the row does not exist) toast.warning and `continue`
fetchStock(s, ok) ==
  /\ pc[s] = "fetchStock"
  /\ Fault(ok)
  /\ IF ok /\ CurLine(s).item \in present
     THEN /\ call' = [call EXCEPT ![s].currentStock = stock[CurLine(s).item]]
          /\ pc' = [pc EXCEPT ![s] = "updateStock"]
          /\ UNCHANGED <<result, isPrinting, paidAmount, discountValue, discountType,
                      billBarcode, refNumber>>
     ELSE NextLine(s, [call[s] EXCEPT !.failed = TRUE])
  /\ UNCHANGED <<dbVars, now, cartVars, showPrintDialog, cartId, committed, snapshot,
                 interfered, nCommits>>

\* const newStock = currentStockData.current_stock - item.quantity
newStock(currentStock, quantity) == currentStock - quantity

\* updateStock as in the earlier version of the commit
\* (StockTab.tsx:1371-1374), which writes the cart line's stock minus the
\* quantity
updateStock_fromSnapshot(s, ok) ==
  /\ pc[s] = "updateStock"
  /\ Fault(ok)
  /\ IF ok /\ CurLine(s).item \in present
     THEN /\ stock' = [stock EXCEPT ![CurLine(s).item] =
                         newStock(CurLine(s).stock, CurLine(s).quantity)]
          /\ Wrote(s)
          /\ NextLine(s, [call[s] EXCEPT !.dec[CurLine(s).item] = @ + 1])
     ELSE IF ok
     THEN /\ UNCHANGED <<stock, interfered>>
          /\ NextLine(s, call[s])
     ELSE /\ UNCHANGED <<stock, interfered>>
          /\ NextLine(s, [call[s] EXCEPT !.failed = TRUE])
  /\ UNCHANGED <<present, bills, billItems, nextBillId, now, cartVars, showPrintDialog,
                 cartId, committed, snapshot, nCommits>>

\* second loop: update current_stock; on error toast.warning and go on.
\* An update that matches no row is no error.
updateStock(s, ok) ==
  /\ pc[s] = "updateStock"
  /\ Fault(ok)
  /\ IF ok /\ CurLine(s).item \in present
     THEN /\ stock' = [stock EXCEPT ![CurLine(s).item] =
                         newStock(call[s].currentStock, CurLine(s).quantity)]
          /\ Wrote(s)
          /\ NextLine(s, [call[s] EXCEPT !.dec[CurLine(s).item] = @ + 1])
     ELSE IF ok
     THEN /\ UNCHANGED <<stock, interfered>>
          /\ NextLine(s, call[s])
     ELSE /\ UNCHANGED <<stock, interfered>>
          /\ NextLine(s, [call[s] EXCEPT !.failed = TRUE])
  /\ UNCHANGED <<present, bills, billItems, nextBillId, now, cartVars, showPrintDialog,
                 cartId, committed, snapshot, nCommits>>

\* fetchStockItems answers (select * where current_stock > 0), loading ends,
\* handlePrintComplete returns.  printToThermalPrinter then sets billData and
\* readyToPrint of the PrintDialog that was unmounted, which has no effect.
\* On error fetchStockItems toasts and keeps the old catalogue.
fetchStockItems(s, ok) ==
  /\ pc[s] = "refresh"
  /\ Fault(ok)
  /\ catalog' = [catalog EXCEPT ![s] =
                   IF ok THEN [i \in Items |-> IF i \in present THEN stock[i] ELSE 0] ELSE @]
  /\ pc' = [pc EXCEPT ![s] = "idle"]
  /\ committed' = committed \cup {call[s].cart}
  /\ UNCHANGED <<dbVars, now, orderItems, customerName, discount, applied, dialogVars,
                 call, result, cartId, snapshot, interfered, nCommits>>

\* billDataForPrint: what printToThermalPrinter puts on the receipt once
\* onPrintComplete has returned, from the values of its closure
billDataForPrint(s) ==
  [reference_number |-> call[s].dialogRefNumber, barcode |-> call[s].dialogBarcode,
   subtotal |-> call[s].subtotal, discount |-> call[s].discountApplied,
   total |-> call[s].subtotal - call[s].discountApplied,
   paid_amount |-> call[s].paidAmount,
   change_amount |-> call[s].paidAmount - (call[s].subtotal - call[s].discountApplied)]

----------------------------------------------------------------------------
\* BillHistory

\* handleReprint as it would be if it wrote back the bill as bill history
\* shows it, with the amounts it displays rounded to whole hundreds
handleReprint_rewritesBill(id) ==
  /\ id \in 1..(nextBillId - 1)
  /\ bills' = {IF b.id = id
                THEN [b EXCEPT !.status = "reprinted",
                               !.total = (b.total \div 100) * 100]
                ELSE b : b \in bills}
  /\ interfered' = [t \in Sessions |-> TRUE]
  /\ UNCHANGED <<stock, present, billItems, nextBillId, now, cartVars, dialogVars, pc,
                 call, result, cartId, committed, snapshot, faults, nCommits>>

\* handleReprint of a bill of the list: update bills set status = 'reprinted'
\* where id = bill.id, result not looked at.  The bill may have been deleted
\* since it was listed, and the update policy of part_000 lets only owners
\* and managers update bills: the request may update nothing.
handleReprint(id) ==
  /\ id \in 1..(nextBillId - 1)
  /\ \E updated \in BOOLEAN :
       IF updated
       THEN /\ bills' = {IF b.id = id THEN [b EXCEPT !.status = "reprinted"] ELSE b :
                           b \in bills}
            /\ interfered' = [t \in Sessions |-> TRUE]
       ELSE UNCHANGED <<bills, interfered>>
  /\ UNCHANGED <<stock, present, billItems, nextBillId, now, cartVars, dialogVars, pc,
                 call, result, cartId, committed, snapshot, faults, nCommits>>

----------------------------------------------------------------------------
\* Sales reports (src/unnamed/part_004)

RECURSIVE sumTotal(_)
\* data.reduce((sum, bill) => sum + Number(bill.total), 0)
sumTotal(rows) ==
  IF rows = {} THEN 0
  ELSE LET b == CHOOSE x \in rows : TRUE IN b.total + sumTotal(rows \ {b})

\* the rows a report selects: from bills where status = 'completed' and
\* created_at within the period; every bill of the model lies in the
\* current period
reportRows == {b \in bills : b.status = "completed"}

\* fetchStats: totalRevenue and totalTransactions of the current period
\* (fetchDailyData, fetchWeeklyData and fetchMonthlyData sum the same rows)
fetchStats ==
  [totalRevenue |-> sumTotal(reportRows), totalTransactions |-> Cardinality(reportRows)]

----------------------------------------------------------------------------
\* StockTab (inventory management)

\* handleDeleteItem, confirmed by the user and carried out: delete from
\* stock_items where id = itemId.  Nothing refers to the row: bill_items
\* holds the item's name, not its id.
handleDeleteItem(i) ==
  /\ i \in present
  /\ present' = present \ {i}
  /\ interfered' = [t \in Sessions |-> TRUE]
  /\ UNCHANGED <<stock, bills, billItems, nextBillId, now, cartVars, dialogVars, pc,
                 call, result, cartId, committed, snapshot, faults, nCommits>>

\* handleUpdateItem, the edit dialog saved with a current_stock typed into
\* it: update stock_items set current_stock = ... where id = editingItem.id
handleUpdateItem(i, current_stock) ==
  /\ i \in present
  /\ stock' = [stock EXCEPT ![i] = current_stock]
  /\ interfered' = [t \in Sessions |-> TRUE]
  /\ UNCHANGED <<present, bills, billItems, nextBillId, now, cartVars, dialogVars, pc,
                 call, result, cartId, committed, snapshot, faults, nCommits>>

\* a millisecond passes
tick ==
  /\ now < MaxTime
  /\ now' = now + 1
  /\ UNCHANGED <<dbVars, cartVars, dialogVars, pc, call, result, histVars>>

----------------------------------------------------------------------------
\* the steps of a running commit, any request of which may fail
commitStep(s) ==
  \/ \E ok \in BOOLEAN : checkStock(s, ok)
  \/ \E ok \in BOOLEAN : insertBill(s, ok)
  \/ \E ok \in BOOLEAN : insertBillItem(s, ok)
  \/ deleteBill(s)
  \/ \E ok \in BOOLEAN : fetchStock(s, ok)
  \/ \E ok \in BOOLEAN : updateStock(s, ok)
  \/ \E ok \in BOOLEAN : fetchStockItems(s, ok)

\* the steps of a running commit when every request is answered
commitStepOk(s) ==
  \/ checkStock(s, TRUE)
  \/ insertBill(s, TRUE)
  \/ insertBillItem(s, TRUE)
  \/ fetchStock(s, TRUE)
  \/ updateStock(s, TRUE)
  \/ fetchStockItems(s, TRUE)

\* Two tills selling from the same stock, requests may fail: carts without
\* discount, paid in full
Next ==
  \E s \in Sessions :
    \/ \E i \in Items : onItemSelect(s, i)
    \/ onCheckout(s)
    \/ \E d1 \in Ticks : confirm(s, d1, 0)
    \/ commitStep(s)

Spec == Init /\ [][Next]_vars

\* One till, every request answered: everything the cashier can do with the
\* cart and the two dialogs
NextSale ==
  LET s == "s1" IN
    \/ \E i \in Items : onItemSelect(s, i)
    \/ \E v \in DiscountInputs, t \in DiscountTypes : handleApplyDiscount(s, v, t)
    \/ onCheckout(s)
    \/ onPaymentClick(s)
    \/ onClose(s)
    \/ \E v \in PaidInputs : setPaidAmount(s, v)
    \/ \E v \in DiscountInputs : setDiscountValue(s, v)
    \/ \E t \in DiscountTypes : setDiscountType(s, t)
    \/ confirmRejected(s)
    \/ confirm(s, 1, 0)
    \/ commitStepOk(s)

SpecSale == Init /\ [][NextSale]_vars

\* One till, every request answered, the payment dialog never dismissed:
\* one cart, its discounts, its payment and its commit (and what the
\* dialog, left open with the emptied cart, lets the cashier do next)
NextPayment ==
  LET s == "s1" IN
    \/ \E i \in Items : onItemSelect(s, i)
    \/ \E v \in DiscountInputs, t \in DiscountTypes : handleApplyDiscount(s, v, t)
    \/ onCheckout(s)
    \/ onPaymentClick(s)
    \/ \E v \in PaidInputs : setPaidAmount(s, v)
    \/ \E v \in DiscountInputs : setDiscountValue(s, v)
    \/ \E t \in DiscountTypes : setDiscountType(s, t)
    \/ confirmRejected(s)
    \/ confirm(s, 1, 0)
    \/ commitStepOk(s)

SpecPayment == Init /\ [][NextPayment]_vars

\* One till, every request answered: named customers and the clock readings
\* of the commits
NextClock ==
  LET s == "s1" IN
    \/ \E i \in Items : onItemSelect(s, i)
    \/ \E n \in Names : onCustomerNameChange(s, n)
    \/ onCheckout(s)
    \/ onPaymentClick(s)
    \/ onClose(s)
    \/ \E d1 \in Elapsed, d2 \in Ticks : confirm(s, d1, d2)
    \/ commitStepOk(s)

SpecClock == Init /\ [][NextClock]_vars

\* One till whose requests may fail, and bill history reprinting bills
NextHistory ==
  \/ LET s == "s1" IN
       \/ \E i \in Items : onItemSelect(s, i)
       \/ onCheckout(s)
       \/ onClose(s)
       \/ confirm(s, 1, 0)
       \/ commitStep(s)
  \/ \E id \in 1..MaxCommits : handleReprint(id)

SpecHistory == Init /\ [][NextHistory]_vars

\* One till, every request answered, and inventory management deleting items
NextInventory ==
  \/ LET s == "s1" IN
       \/ \E i \in Items : onItemSelect(s, i)
       \/ onCheckout(s)
       \/ onClose(s)
       \/ confirm(s, 1, 0)
       \/ commitStepOk(s)
  \/ \E i \in Items : handleDeleteItem(i)

SpecInventory == Init /\ [][NextInventory]_vars

\* One till before its first commit: everything the cashier can do with the
\* lines of the cart, product barcodes scanned, and inventory management
\* restocking items
NextCart ==
  \/ LET s == "s1" IN
       \/ \E i \in Items : onItemSelect(s, i)
       \/ \E i \in Items : handleBarcodeScanned(s, i)
       \/ \E k \in 1..Cardinality(Items), d \in {-1, 1} : onUpdateQuantity(s, k, d)
       \/ \E k \in 1..Cardinality(Items) : onRemoveItem(s, k)
       \/ clearOrder(s)
  \/ \E i \in Items, v \in RestockInputs : handleUpdateItem(i, v)
  \/ tick

SpecCart == Init /\ [][NextCart]_vars

\* One till, every request answered: carts built, changed, discounted by
\* an amount, cleared, sold, and built again from the barcode of a bill
NextImport ==
  LET s == "s1" IN
    \/ \E i \in Items : onItemSelect(s, i)
    \/ \E k \in 1..Cardinality(Items), d \in {-1, 1} : onUpdateQuantity(s, k, d)
    \/ \E k \in 1..Cardinality(Items) : onRemoveItem(s, k)
    \/ \E v \in DiscountInputs : handleApplyDiscount(s, v, "amount")
    \/ clearOrder(s)
    \/ \E b \in bills : handleImportBillFromBarcode(s, b.barcode)
    \/ onCheckout(s)
    \/ onClose(s)
    \/ confirm(s, 1, 0)
    \/ commitStepOk(s)

SpecImport == Init /\ [][NextImport]_vars

\* One till whose requests may fail but are all answered, the payment
\* dialog never dismissed: every awaited request of a running commit
\* returns, so the commit takes its next step
NextLive ==
  LET s == "s1" IN
    \/ \E i \in Items : onItemSelect(s, i)
    \/ onCheckout(s)
    \/ confirm(s, 1, 0)
    \/ commitStep(s)

SpecLive == Init /\ [][NextLive]_vars /\ WF_vars(commitStep("s1"))

\* One till, every request answered, the payment dialog never dismissed:
\* discounts larger than the cart is worth, typed into either dialog
NextDiscount ==
  LET s == "s1" IN
    \/ \E i \in Items : onItemSelect(s, i)
    \/ \E v \in LargeDiscountInputs, t \in DiscountTypes : handleApplyDiscount(s, v, t)
    \/ onCheckout(s)
    \/ \E v \in PaidInputs : setPaidAmount(s, v)
    \/ \E v \in LargeDiscountInputs : setDiscountValue(s, v)
    \/ \E t \in DiscountTypes : setDiscountType(s, t)
    \/ confirm(s, 1, 0)
    \/ commitStepOk(s)

SpecDiscount == Init /\ [][NextDiscount]_vars

----------------------------------------------------------------------------
\* Properties


RECURSIVE sumQuantity(_)
sumQuantity(rows) ==
  IF rows = {} THEN 0
  ELSE LET r == CHOOSE x \in rows : TRUE
       IN r.quantity + sumQuantity(rows \ {r})

RECURSIVE sumTotalPrice(_)
sumTotalPrice(rows) ==
  IF rows = {} THEN 0
  ELSE LET r == CHOOSE x \in rows : TRUE
       IN r.total_price + sumTotalPrice(rows \ {r})

\* quantity of item i on the lines of the persisted bills
sold(i) ==
  sumQuantity({r \in billItems : r.item_name = i /\ \E b \in bills : b.id = r.bill_id})

Quiet == \A s \in Sessions : pc[s] = "idle"

\* the cart of the commit was the single line (i, q)
Requested(s, i, q) ==
  /\ Len(call[s].orderItems) = 1
  /\ call[s].orderItems[1].item = i
  /\ call[s].orderItems[1].quantity = q

\* C1: after any sequence of commits, also interleaved ones of two
\* sessions, the current stock of every item is >= 0.
C1_StockNeverNegative == \A i \in Items : stock[i] >= 0

\* C2: two sessions each commit a cart asking for q of the same item whose
\* stock S has q <= S < 2q: exactly one commit succeeds, the other fails
\* with insufficient stock, and the final stock is S - q.  (Stated for runs
\* in which every request is answered and the two commits got different
\* identifiers.)
C2_ExactlyOneSucceeds ==
  \A i \in Items, q \in 1..MaxStock :
    ( /\ Quiet /\ faults = 0 /\ nCommits = 2
      /\ cartId["s1"] = 1 /\ cartId["s2"] = 1
      /\ Requested("s1", i, q) /\ Requested("s2", i, q)
      /\ call["s1"].refNumber # call["s2"].refNumber
      /\ q <= MaxStock /\ MaxStock < 2 * q )
    => /\ {result["s1"].kind, result["s2"].kind} = {"success", "InsufficientStock"}
       /\ stock[i] = MaxStock - q

\* C3: a commit that fails at any step leaves bills, bill lines and stock
\* as they were when it began (no other session having written meanwhile).
C3_FailedCommitLeavesNoTrace ==
  \A s \in Sessions :
    ( /\ pc[s] = "idle"
      /\ result[s].kind \in {"PersistenceFailure", "InsufficientStock"}
      /\ ~interfered[s] )
    => DB = snapshot[s]

\* C4: when no commit is running, the stock of every item is its initial
\* stock minus the quantities of that item on the lines of the persisted
\* bills.  (Stated for runs in which every request is answered.)
C4_StockMatchesSales ==
  (Quiet /\ faults = 0) => \A i \in Items : stock[i] = MaxStock - sold(i)

\* C5: every bill of a successful commit of a cart with lines has: sum of
\* its lines' total_price = subtotal, and subtotal - discount = total.
C5_BillTotalsConsistent ==
  \A b \in bills :
    (b.cart \in committed /\ linesOf(b) # {}) =>
      /\ sumTotalPrice(linesOf(b)) = b.subtotal
      /\ b.subtotal - b.discount = b.total

\* C6: every persisted bill has paid_amount >= total and
\* change_amount = paid_amount - total >= 0.
C6_PaidCoversTotal ==
  \A b \in bills :
    /\ b.paid_amount >= b.total
    /\ b.change_amount = b.paid_amount - b.total
    /\ b.change_amount >= 0

\* C7: when the stock check of a commit finds live stock below the asked
\* quantity, the commit reports insufficient stock for that item with the
\* available stock, has written no bill, bill line or stock, and the cart
\* (lines, customer name, discount) is as it was when the commit began.
C7_InsufficientStockKeepsCart ==
  [][\A s \in Sessions :
       (pc[s] = "verify" /\ pc'[s] = "idle" /\ result'[s].kind = "InsufficientStock")
       => /\ result'[s].item = CurLine(s).item
          /\ result'[s].available = stock[CurLine(s).item]
          /\ stock[CurLine(s).item] < CurLine(s).quantity
          /\ DB' = DB
          /\ ~ \E b \in bills' : b.cart = call[s].cart
          /\ readLines(orderItems'[s]) = call[s].orderItems
          /\ customerName'[s] = call[s].customerName
          /\ discount'[s] = call[s].subtotal - call[s].total]_vars

\* C8: no bill without lines is persisted: every bill of a commit that has
\* returned has at least one line.
C8_NoBillWithoutLines ==
  \A b \in bills : b.cart \in committed => linesOf(b) # {}

\* the lines of a cart as rows of a bill
rowsOf(lines, id) ==
  {[bill_id |-> id, item_name |-> lines[k].item, quantity |-> lines[k].quantity,
    unit_price |-> Price(lines[k].item),
    total_price |-> Price(lines[k].item) * lines[k].quantity] : k \in 1..Len(lines)}

\* C9: a cart is recorded in at most one bill, and a cart whose commit
\* has returned is recorded in exactly one bill, with all its lines, and
\* the stock of each of its lines was decremented exactly once.
C9_OneBillOneDecrement ==
  /\ \A b1, b2 \in bills : b1.cart = b2.cart => b1 = b2
  /\ \A s \in Sessions :
       call[s].cart \in committed =>
         /\ \E b \in bills : b.cart = call[s].cart
                             /\ linesOf(b) = rowsOf(call[s].orderItems, b.id)
         /\ \A k \in 1..Len(call[s].orderItems) :
              call[s].dec[call[s].orderItems[k].item] = 1

\* C10: the identifiers the commit of a cart with lines allocates differ
\* from the reference number and the barcode of every bill with lines that
\* was committed at another instant.
C10_IdentifiersDistinct ==
  \A s \in Sessions, b \in bills :
    ( /\ pc[s] = "insertBill" /\ call[s].orderItems # <<>>
      /\ linesOf(b) # {} /\ b.instant # call[s].instant )
    => /\ b.reference_number # call[s].refNumber
       /\ b.barcode # call[s].barcodeNum

\* C11: a reader of bills, bill lines and stock never sees a commit half
\* done: whenever the bill of a commit is in bills, all the lines of its
\* cart are in bill_items and the stock of each line has been decremented.
\* (Stated for commits none of whose requests has failed.)
C11_ReadersSeeWholeCommits ==
  \A s \in Sessions, b \in bills :
    (b.cart = call[s].cart /\ ~call[s].failed) =>
      /\ linesOf(b) = rowsOf(call[s].orderItems, b.id)
      /\ \A k \in 1..Len(call[s].orderItems) :
           call[s].dec[call[s].orderItems[k].item] = 1

\* C12: a commit one of whose persistence requests failed never reports
\* success: once it is past its last write it has reported the failure.
C12_FailureIsReported ==
  \A s \in Sessions :
    (call[s].failed /\ pc[s] \in {"refresh", "idle"}) =>
      result[s].kind = "PersistenceFailure"

RECURSIVE quantityIn(_, _)
\* quantity of item i on the lines of a cart
quantityIn(lines, i) ==
  IF lines = <<>> THEN 0
  ELSE quantityIn(Tail(lines), i)
       + (IF Head(lines).item = i THEN Head(lines).quantity ELSE 0)

\* C14: when the commit of a cart with lines, paid >= total, every request
\* answered and no other commit running, has done its last write, it has
\* reported success, exactly one bill records the cart, with one line per
\* cart line, total = subtotal - discount and change = paid - total, the
\* stock of every item is lower by the quantity sold, and the cart it sold
\* has been replaced by a new one, which starts empty.
C14_CommitPersistsTheSale ==
  \A s \in Sessions :
    ( /\ pc[s] = "refresh" /\ ~call[s].failed
      /\ call[s].orderItems # <<>>
      /\ call[s].paidAmount >= call[s].total ) =>
      /\ result[s].kind = "success"
      /\ Cardinality({b \in bills : b.cart = call[s].cart}) = 1
      /\ \A b \in bills : b.cart = call[s].cart =>
           /\ linesOf(b) = rowsOf(call[s].orderItems, b.id)
           /\ b.total = b.subtotal - b.discount
           /\ b.change_amount = b.paid_amount - b.total
      /\ \A i \in Items :
           stock[i] = snapshot[s].stock[i] - quantityIn(call[s].orderItems, i)
      /\ cartId[s] > call[s].cart[2]

\* the commit that wrote bill b is not running any more
Settled(b) == \A s \in Sessions : b.cart = call[s].cart => pc[s] \in {"refresh", "idle"}

C16_StatusTransitions ==
  [][/\ \A c \in bills' :
          /\ c.status \in {"completed", "reprinted"}
          /\ (~ \E b \in bills : b.id = c.id) => c.status = "completed"
     /\ \A b \in bills, c \in bills' :
          (c.id = b.id /\ c.status # b.status) =>
            (b.status = "completed" /\ c.status = "reprinted")]_vars

\* C16 witness: a reprinted bill beside a bill just created as 'completed'
C16_Witness ==
  \E b, c \in bills :
    /\ b.status = "reprinted" /\ c.status = "completed"
    /\ c.cart = call["s1"].cart /\ pc["s1"] = "insertItem"

\* C17: the commit decides and computes with the stock it reads from the
\* table, never with the stock the cart line carries: its check of a line
\* rejects the commit exactly when the stock in the table is below the
\* line's quantity, whatever the line's snapshot says, and the stock it
\* writes is the value its read returned minus the quantity.
C17_LiveStockDecides ==
  [][\A s \in Sessions :
       LET line == CurLine(s) IN
         /\ ( /\ pc[s] = "verify" /\ faults' = faults
              /\ <<pc'[s], call'[s]>> # <<pc[s], call[s]>> ) =>
              ( stock[line.item] < line.quantity
                <=> (pc'[s] = "idle" /\ result'[s].kind = "InsufficientStock") )
         /\ (pc[s] = "fetchStock" /\ pc'[s] = "updateStock") =>
              call'[s].currentStock = stock[line.item]
         /\ (pc[s] = "updateStock" /\ pc'[s] # pc[s] /\ faults' = faults) =>
              stock' = [stock EXCEPT ![line.item] = call[s].currentStock - line.quantity]]_vars

\* C17 witness: a commit was rejected for a line whose snapshot stock
\* covers its quantity while the stock in the table does not
C17_Witness ==
  \E s \in Sessions :
    /\ pc[s] = "idle" /\ result[s].kind = "InsufficientStock"
    /\ call[s].orderItems # <<>>
    /\ CurLine(s).stock >= CurLine(s).quantity
    /\ stock[CurLine(s).item] < CurLine(s).quantity
    /\ result[s].item = CurLine(s).item

\* C18: the cart's totals follow its lines: while the discount of the cart
\* is a percentage v, its discount amount is subtotal * v / 100 and its total
\* is subtotal less that amount, whatever was added to the cart since the
\* discount was applied.
C18_CartTotalsDerived ==
  \A s \in Sessions :
    applied[s].type = "percentage" =>
      LET sub == subtotalOf(orderItems[s]) IN
        /\ discount[s] = (sub * applied[s].value) \div 100
        /\ totalOf(orderItems[s], discount[s]) = sub - (sub * applied[s].value) \div 100

\* C19: when the commit of a cart with lines has returned, the reference
\* number and the barcode of its receipt are those of the bill it stored,
\* and that bill is the one bills holds under the receipt's barcode.
C19_ReceiptNamesTheBill ==
  \A s \in Sessions :
    (pc[s] = "idle" /\ call[s].cart \in committed /\ call[s].orderItems # <<>>) =>
      /\ \E b \in bills :
           /\ b.cart = call[s].cart
           /\ <<b.reference_number>> = billDataForPrint(s).reference_number
           /\ <<b.barcode>> = billDataForPrint(s).barcode
      /\ \A b \in bills :
           <<b.barcode>> = billDataForPrint(s).barcode => b.cart = call[s].cart

\* C20: when a commit ends, the bill it has persisted, if any, has no line
\* for an item that inventory management has deleted before or during the
\* commit.
C20_NoLineForDeletedItem ==
  [][\A s \in Sessions :
       (pc[s] \notin {"refresh", "idle"} /\ pc'[s] \in {"refresh", "idle"}) =>
         \A b \in bills' :
           b.cart = call[s].cart =>
             \A r \in billItems' : r.bill_id = b.id => r.item_name \in present']_vars

\* C21: after any sequence of cart operations every cart line has a
\* quantity of at least 1 that does not exceed the stock snapshot stored in
\* that line.
C21_QuantityWithinSnapshot ==
  \A s \in Sessions : \A k \in 1..Len(orderItems[s]) :
    /\ orderItems[s][k].quantity >= 1
    /\ orderItems[s][k].quantity <= orderItems[s][k].stock

\* C22: addItem (handleItemSelect with an item of stock st): if the item is
\* already in the cart, no line is added and its line's quantity grows by 1,
\* unless that would exceed st, in which case the cart is unchanged;
\* otherwise a new line of quantity 1 is appended after all existing lines;
\* with stock 0 nothing is done.  No other line changes.
C22_AddItem ==
  [][\A s \in Sessions, i \in Items, st \in 0..(MaxStock + 1) :
       handleItemSelect(s, [item |-> i, stock |-> st]) =>
         LET prev == orderItems[s]
             nxt == orderItems'[s]
             at == {k \in 1..Len(prev) : prev[k].item = i}
         IN /\ st > 0
            /\ IF at # {}
               THEN /\ Len(nxt) = Len(prev)
                    /\ \A k \in 1..Len(prev) :
                         /\ nxt[k].item = prev[k].item /\ nxt[k].id = prev[k].id
                         /\ nxt[k].quantity =
                              IF k \in at /\ prev[k].quantity + 1 <= st
                              THEN prev[k].quantity + 1
                              ELSE prev[k].quantity
               ELSE /\ Len(nxt) = Len(prev) + 1
                    /\ SubSeq(nxt, 1, Len(prev)) = prev
                    /\ nxt[Len(nxt)].item = i
                    /\ nxt[Len(nxt)].quantity = 1]_vars

\* a cart whose second line was appended to a first one, the first one
\* having then been added once more
C22_Witness ==
  /\ Len(orderItems["s1"]) = 2
  /\ orderItems["s1"][1].quantity = 2
  /\ orderItems["s1"][2].quantity = 1
  /\ orderItems["s1"][1].item # orderItems["s1"][2].item

\* C23: setQuantity (handleUpdateQuantity for the line at position k, with
\* quantity q): with q <= 0 that line is removed; with q greater than the
\* line's stock snapshot the quantity is left as it was; otherwise the
\* quantity becomes q; afterwards the line's quantity does not exceed its
\* snapshot, and every other line is unchanged.
C23_SetQuantity ==
  [][\A s \in Sessions, k \in 1..Cardinality(Items), q \in 0..(MaxStock + 2) :
       (k <= Len(orderItems[s]) /\ handleUpdateQuantity(s, orderItems[s][k].id, q)) =>
         LET prev == orderItems[s]
             nxt == orderItems'[s]
         IN IF q <= 0
            THEN nxt = [j \in 1..(Len(prev) - 1) |-> IF j < k THEN prev[j] ELSE prev[j + 1]]
            ELSE /\ Len(nxt) = Len(prev)
                 /\ \A j \in 1..Len(prev) : j # k => nxt[j] = prev[j]
                 /\ nxt[k] = [prev[k] EXCEPT !.quantity =
                                IF q > prev[k].stock THEN prev[k].quantity ELSE q]
                 /\ nxt[k].quantity <= nxt[k].stock]_vars

\* C30: the ids of the lines of a cart are pairwise distinct.
C30_LineIdsUnique ==
  \A s \in Sessions : \A j, k \in 1..Len(orderItems[s]) :
    j # k => orderItems[s][j].id # orderItems[s][k].id

\* C24: the discount amount is subtotal * value / 100 for a percentage and
\* value for a fixed amount, and the total is subtotal - discount amount:
\* for the discount the discount dialog hands to the cart when applied, and
\* for the discount and the amount due of the payment dialog when the
\* payment is confirmed.
C24_DiscountFormula ==
  [][\A s \in Sessions :
       LET sub == subtotalOf(orderItems[s])
           Amount(d, v, t) == IF t = "percentage" THEN 100 * d = sub * v ELSE d = v
       IN /\ \A v \in DiscountInputs, t \in DiscountTypes :
               handleApplyDiscount(s, v, t) =>
                 /\ Amount(discount'[s], v, t)
                 /\ totalOf(orderItems'[s], discount'[s]) = sub - discount'[s]
          /\ \A d1 \in Elapsed \cup Ticks, d2 \in Ticks :
               confirm(s, d1, d2) =>
                 /\ Amount(call'[s].discountApplied, parseFloatOr0(discountValue[s]),
                           discountType[s])
                 /\ finalTotalOf(s) = sub - call'[s].discountApplied
                 /\ call'[s].paidAmount >= sub - call'[s].discountApplied]_vars

\* a percentage discount was applied to a cart of subtotal 100, and the
\* payment dialog, open on that cart, shows a percentage discount of its own
C24_Witness ==
  /\ subtotalOf(orderItems["s1"]) = 100
  /\ applied["s1"] = [value |-> 50, type |-> "percentage"]
  /\ discount["s1"] = 50
  /\ showPrintDialog["s1"]
  /\ discountType["s1"] = "percentage" /\ discountValue["s1"] = <<50>>
  /\ discountAmountOf("s1") = 50 /\ finalTotalOf("s1") = 50

\* C25: every persisted bill carries, as created_by, the signed-in user of
\* the session whose commit wrote it.
C25_BillCarriesCreator ==
  \A b \in bills : b.created_by = user[b.cart[1]]

\* C26: a step that changes the cart of a session (its lines, customer name
\* or discount: addItem, setQuantity, removeLine, applyDiscount, clear, bill
\* import) changes no stock item, bill or bill line.
C26_CartStepsAreLocal ==
  [][(\E s \in Sessions : \/ orderItems'[s] # orderItems[s]
                          \/ customerName'[s] # customerName[s]
                          \/ discount'[s] # discount[s])
     => /\ stock' = stock /\ present' = present
        /\ bills' = bills /\ billItems' = billItems]_vars

\* with a bill persisted, the cart holds two lines, imported from a bill,
\* and a discount applied to them
C26_Witness ==
  /\ bills # {}
  /\ \E k \in 1..Len(orderItems["s1"]) : Len(orderItems["s1"][k].id) = 2
  /\ applied["s1"] # NoDiscount
  /\ Len(orderItems["s1"]) = 2

\* C27: every commit that has started ends, with success or with an error
\* reported to the user, and when it has ended isPrinting is false.
C27_CommitEnds ==
  \A s \in Sessions :
    (pc[s] # "idle") ~>
      (/\ pc[s] = "idle"
       /\ ~isPrinting[s]
       /\ result[s].kind \in {"success", "InsufficientStock", "PersistenceFailure"})

\* a commit has ended with a reported error, another one with success
C27_Witness ==
  /\ pc["s1"] = "idle" /\ nCommits = 2
  /\ ~isPrinting["s1"]
  /\ result["s1"].kind = "PersistenceFailure"
  /\ committed # {}

\* C28: marking a bill as reprinted changes neither the revenue total nor
\* the transaction count that the sales reports compute.
C28_ReprintKeepsReports ==
  [][\A id \in 1..MaxCommits : handleReprint(id) => fetchStats' = fetchStats]_vars

\* C29: every persisted bill has a total of at least 0 and a discount of at
\* most its subtotal.
C29_BillAmountsBounded ==
  \A b \in bills : b.total >= 0 /\ b.discount <= b.subtotal

====
